---- MODULE Spec2Model ----
(***************************************************************************)
(* Model of dis::interval<T> (src/include/dis/core/interval.hpp) and of    *)
(* dis::disjoint_interval_set<I> (src/include/dis/core/                    *)
(* disjoint_interval_set.hpp) for T = double.  Scalars are modelled as     *)
(* integers: the bounds handed to the constructors are the even numbers    *)
(* 0, 2, ... and the two infinities; the odd numbers in between stand for  *)
(* the values that lie strictly between two bounds.                        *)
(***************************************************************************)
EXTENDS Integers, Sequences, FiniteSets

VARIABLES intervals_, other, ref, last, iv, jv, ctor, op, ret

\* the two intervals of the interval-level runs, the arguments last handed to
\* a constructor or to the call, the operation last applied and what it
\* returned
ivars == <<iv, jv, ctor, op, ret>>

vars == <<intervals_, other, ref, last, iv, jv, ctor, op, ret>>

\* ------------------------------------------------------------------------
\* Bounds of the model
\* ------------------------------------------------------------------------

\* number of distinct finite bound values handed to the constructors
NumBounds == 2

\* longest initializer list handed to the list constructor
MaxList == 2

\* greatest bound value of the runs over an integer scalar
MaxInt == 3

\* ------------------------------------------------------------------------
\* The scalar type
\* ------------------------------------------------------------------------

\* std::numeric_limits<double>::infinity(): above every finite value used
Inf == 1000

FiniteBounds == {2 * k : k \in 0..(NumBounds - 1)}

BoundValues == FiniteBounds \cup {-Inf, Inf}

\* finite sample values: every finite bound, a value between each pair of
\* neighbours, a value below the least and a value above the greatest
FinitePoints == (-1)..(2 * NumBounds - 1)

AllPoints == FinitePoints \cup {-Inf, Inf}

\* ------------------------------------------------------------------------
\* interval<T>
\* ------------------------------------------------------------------------

\* interval(): the default constructor, the canonical empty interval
interval_default ==
    [lower |-> 0, upper |-> -1, left_closed |-> FALSE, right_closed |-> FALSE]

\* faulty variant: only crossed bounds are normalized to the empty interval
interval_crossed_only(lower, upper, left_closed, right_closed) ==
    IF lower > upper
    THEN interval_default
    ELSE [lower |-> lower, upper |-> upper,
          left_closed |-> left_closed, right_closed |-> right_closed]

\* interval(T lower, T upper, bool left_closed, bool right_closed)
interval(lower, upper, left_closed, right_closed) ==
    IF lower > upper \/ (lower = upper /\ (~left_closed \/ ~right_closed))
    THEN interval_default
    ELSE [lower |-> lower, upper |-> upper,
          left_closed |-> left_closed, right_closed |-> right_closed]

closed(lower, upper) == interval(lower, upper, TRUE, TRUE)

open(lower, upper) == interval(lower, upper, FALSE, FALSE)

left_open(lower, upper) == interval(lower, upper, FALSE, TRUE)

right_open(lower, upper) == interval(lower, upper, TRUE, FALSE)

point(value) == interval(value, value, TRUE, TRUE)

interval_unbounded == interval(-Inf, Inf, FALSE, FALSE)

interval_empty(a) == a.lower > a.upper

interval_contains(a, value) ==
    IF interval_empty(a) THEN FALSE
    ELSE LET left_ok == IF a.left_closed THEN value >= a.lower ELSE value > a.lower
             right_ok == IF a.right_closed THEN value <= a.upper ELSE value < a.upper
         IN  left_ok /\ right_ok

is_left_closed(a) == ~interval_empty(a) /\ a.left_closed

is_right_closed(a) == ~interval_empty(a) /\ a.right_closed

\* faulty variant: only the bound values are compared, not their closedness
interval_subset_of_bounds_only(a, b) ==
    IF interval_empty(a) THEN TRUE
    ELSE IF interval_empty(b) THEN FALSE
    ELSE b.lower <= a.lower /\ b.upper >= a.upper

interval_subset_of(a, b) ==
    IF interval_empty(a) THEN TRUE
    ELSE IF interval_empty(b) THEN FALSE
    ELSE LET left_ok == (b.lower < a.lower) \/
                        (b.lower = a.lower /\ (~b.left_closed \/ a.left_closed))
             right_ok == (b.upper > a.upper) \/
                         (b.upper = a.upper /\ (~b.right_closed \/ a.right_closed))
         IN  left_ok /\ right_ok

\* faulty variant: intervals that touch at a bound value always overlap
interval_overlaps_touching(a, b) ==
    IF interval_empty(a) \/ interval_empty(b) THEN FALSE
    ELSE a.upper >= b.lower /\ a.lower <= b.upper

interval_overlaps(a, b) ==
    IF interval_empty(a) \/ interval_empty(b) THEN FALSE
    ELSE IF a.upper < b.lower THEN FALSE
    ELSE IF a.lower > b.upper THEN FALSE
    ELSE IF a.upper = b.lower THEN a.right_closed /\ b.left_closed
    ELSE IF a.lower = b.upper THEN a.left_closed /\ b.right_closed
    ELSE TRUE

\* faulty variant: over a discrete scalar, closed bounds one step apart count
\* as adjacent
interval_adjacent_to_discrete(a, b) ==
    IF interval_empty(a) \/ interval_empty(b) THEN FALSE
    ELSE IF a.upper = b.lower THEN a.right_closed /= b.left_closed
    ELSE IF a.lower = b.upper THEN a.left_closed /= b.right_closed
    ELSE IF a.upper + 1 = b.lower THEN a.right_closed /\ b.left_closed
    ELSE IF b.upper + 1 = a.lower THEN b.right_closed /\ a.left_closed
    ELSE FALSE

\* faulty variant: only the upper bound of a is tested against b
interval_adjacent_to_one_sided(a, b) ==
    IF interval_empty(a) \/ interval_empty(b) THEN FALSE
    ELSE IF a.upper = b.lower THEN a.right_closed /= b.left_closed
    ELSE FALSE

interval_adjacent_to(a, b) ==
    IF interval_empty(a) \/ interval_empty(b) THEN FALSE
    ELSE IF a.upper = b.lower THEN a.right_closed /= b.left_closed
    ELSE IF a.lower = b.upper THEN a.left_closed /= b.right_closed
    ELSE FALSE

interval_superset_of(a, b) == interval_subset_of(b, a)

interval_disjoint_from(a, b) == ~interval_overlaps(a, b)

\* std::optional<T>: <<>> is std::nullopt
interval_lower_bound(a) == IF interval_empty(a) THEN <<>> ELSE <<a.lower>>

interval_upper_bound(a) == IF interval_empty(a) THEN <<>> ELSE <<a.upper>>

Max(x, y) == IF x < y THEN y ELSE x

Min(x, y) == IF y < x THEN y ELSE x

\* faulty variant: at a tied bound the result is closed if either operand is
interval_intersect_tie_or(a, b) ==
    IF interval_empty(a) \/ interval_empty(b) THEN interval_default
    ELSE interval(Max(a.lower, b.lower), Min(a.upper, b.upper),
                  IF a.lower = b.lower THEN a.left_closed \/ b.left_closed
                  ELSE IF a.lower > b.lower THEN a.left_closed ELSE b.left_closed,
                  IF a.upper = b.upper THEN a.right_closed \/ b.right_closed
                  ELSE IF a.upper < b.upper THEN a.right_closed ELSE b.right_closed)

interval_intersect(a, b) ==
    IF interval_empty(a) \/ interval_empty(b) THEN interval_default
    ELSE LET new_lower == Max(a.lower, b.lower)
             new_upper == Min(a.upper, b.upper)
             new_left == IF a.lower = b.lower
                         THEN a.left_closed /\ b.left_closed
                         ELSE IF new_lower = a.lower THEN a.left_closed
                                                     ELSE b.left_closed
             new_right == IF a.upper = b.upper
                          THEN a.right_closed /\ b.right_closed
                          ELSE IF new_upper = a.upper THEN a.right_closed
                                                      ELSE b.right_closed
         IN  IF new_lower > new_upper THEN interval_default
             ELSE IF new_lower = new_upper /\ (~new_left \/ ~new_right)
                  THEN interval_default
             ELSE interval(new_lower, new_upper, new_left, new_right)

\* faulty variant: hull refuses intervals that are adjacent without overlapping
interval_hull_overlapping_only(a, b) ==
    IF interval_empty(a) THEN <<b>>
    ELSE IF interval_empty(b) THEN <<a>>
    ELSE IF ~interval_overlaps(a, b) THEN <<>>
    ELSE <<interval(Min(a.lower, b.lower), Max(a.upper, b.upper),
                    IF a.lower = b.lower THEN a.left_closed \/ b.left_closed
                    ELSE IF a.lower < b.lower THEN a.left_closed ELSE b.left_closed,
                    IF a.upper = b.upper THEN a.right_closed \/ b.right_closed
                    ELSE IF a.upper > b.upper THEN a.right_closed ELSE b.right_closed)>>

\* std::optional<interval>: <<>> is std::nullopt, <<h>> holds the value h
interval_hull(a, b) ==
    IF interval_empty(a) THEN <<b>>
    ELSE IF interval_empty(b) THEN <<a>>
    ELSE IF ~interval_overlaps(a, b) /\ ~interval_adjacent_to(a, b) THEN <<>>
    ELSE LET new_lower == Min(a.lower, b.lower)
             new_upper == Max(a.upper, b.upper)
             new_left == IF a.lower = b.lower
                         THEN a.left_closed \/ b.left_closed
                         ELSE IF new_lower = a.lower THEN a.left_closed
                                                     ELSE b.left_closed
             new_right == IF a.upper = b.upper
                          THEN a.right_closed \/ b.right_closed
                          ELSE IF new_upper = a.upper THEN a.right_closed
                                                      ELSE b.right_closed
         IN  <<interval(new_lower, new_upper, new_left, new_right)>>

\* faulty variant: a closed boundary adds its own value to the length
interval_length_inclusive(a) ==
    IF interval_empty(a) THEN 0
    ELSE (a.upper - a.lower) + (IF a.left_closed /\ a.right_closed THEN 1 ELSE 0)

\* length(): the flags play no part
interval_length(a) == IF interval_empty(a) THEN 0 ELSE a.upper - a.lower

\* distance_to(other)
interval_distance_to(a, b) ==
    IF interval_empty(a) \/ interval_empty(b) THEN 0
    ELSE IF interval_overlaps(a, b) THEN 0
    ELSE IF a.upper < b.lower THEN b.lower - a.upper
    ELSE a.lower - b.upper

\* faulty variant: the closedness flags are not compared
interval_eq_bounds_only(a, b) ==
    IF interval_empty(a) /\ interval_empty(b) THEN TRUE
    ELSE a.lower = b.lower /\ a.upper = b.upper

\* operator== of interval
interval_eq(a, b) ==
    IF interval_empty(a) /\ interval_empty(b) THEN TRUE
    ELSE a.lower = b.lower /\ a.upper = b.upper /\
         a.left_closed = b.left_closed /\ a.right_closed = b.right_closed

\* operator<=> of interval yields "less"
interval_less(a, b) ==
    IF interval_empty(a) /\ interval_empty(b) THEN FALSE
    ELSE IF interval_empty(a) THEN TRUE
    ELSE IF interval_empty(b) THEN FALSE
    ELSE IF a.lower /= b.lower THEN a.lower < b.lower
    ELSE IF a.left_closed /= b.left_closed THEN a.left_closed
    ELSE IF a.upper /= b.upper THEN a.upper < b.upper
    ELSE IF a.right_closed /= b.right_closed THEN a.right_closed
    ELSE FALSE

\* ------------------------------------------------------------------------
\* disjoint_interval_set<I>: the private normalize()
\* ------------------------------------------------------------------------

RECURSIVE sort_insert(_, _)
sort_insert(s, x) ==
    IF s = <<>> THEN <<x>>
    ELSE IF interval_less(x, Head(s)) THEN <<x>> \o s
    ELSE <<Head(s)>> \o sort_insert(Tail(s), x)

\* std::ranges::sort(intervals_): the ascending arrangement under operator<
RECURSIVE sort(_)
sort(s) == IF s = <<>> THEN <<>> ELSE sort_insert(sort(Tail(s)), Head(s))

\* faulty variant: after a merge the next interval starts a new run unexamined
RECURSIVE merge_sweep_skipping(_, _)
merge_sweep_skipping(out, s) ==
    IF s = <<>> THEN out
    ELSE LET merged == interval_hull(out[Len(out)], Head(s))
         IN  IF merged = <<>>
             THEN merge_sweep_skipping(Append(out, Head(s)), Tail(s))
             ELSE IF Tail(s) = <<>>
                  THEN [out EXCEPT ![Len(out)] = merged[1]]
                  ELSE merge_sweep_skipping(
                           Append([out EXCEPT ![Len(out)] = merged[1]], Head(Tail(s))),
                           Tail(Tail(s)))

\* the merge loop of normalize(): out is intervals_[0..write], s the unread rest
RECURSIVE merge_sweep(_, _)
merge_sweep(out, s) ==
    IF s = <<>> THEN out
    ELSE LET write == Len(out)
             merged == interval_hull(out[write], Head(s))
         IN  IF merged /= <<>>
             THEN merge_sweep([out EXCEPT ![write] = merged[1]], Tail(s))
             ELSE merge_sweep(Append(out, Head(s)), Tail(s))

\* faulty variant: the merge loop runs over the unsorted sequence
normalize_unsorted(s) ==
    IF Len(s) <= 1 THEN s ELSE merge_sweep(<<Head(s)>>, Tail(s))

normalize(s) ==
    IF Len(s) <= 1 THEN s
    ELSE LET sorted == sort(s)
         IN  merge_sweep(<<Head(sorted)>>, Tail(sorted))

\* the loops of the constructors and of insert(range): push every non-empty one
RECURSIVE push_non_empty(_, _)
push_non_empty(s, list) ==
    IF list = <<>> THEN s
    ELSE push_non_empty(IF interval_empty(Head(list)) THEN s ELSE Append(s, Head(list)),
                        Tail(list))

\* disjoint_interval_set(std::initializer_list<I>)
from_list(list) == normalize(push_non_empty(<<>>, list))

\* static unbounded()
unbounded == from_list(<<interval_unbounded>>)

\* ------------------------------------------------------------------------
\* Queries
\* ------------------------------------------------------------------------

\* faulty variant: the comparator also skips a component whose upper bound is v
upper_less_or_equal(a, v) == (IF interval_empty(a) THEN v ELSE a.upper) <= v

\* the comparator handed to std::lower_bound by contains(value_type)
upper_less(a, v) == (IF interval_empty(a) THEN v ELSE a.upper) < v

\* std::lower_bound over positions first .. first+count-1 (1-based)
RECURSIVE lower_bound(_, _, _, _)
lower_bound(s, v, first, count) ==
    IF count = 0 THEN first
    ELSE LET step == count \div 2
             it == first + step
         IN  IF upper_less(s[it], v)
             THEN lower_bound(s, v, it + 1, count - (step + 1))
             ELSE lower_bound(s, v, first, step)

\* contains(value_type)
contains(s, v) ==
    LET it == lower_bound(s, v, 1, Len(s))
    IN  it /= Len(s) + 1 /\ interval_contains(s[it], v)

\* ------------------------------------------------------------------------
\* Set operations
\* ------------------------------------------------------------------------

\* faulty variant: the concatenation is returned without normalize()
unite_concatenated(a, b) ==
    IF a = <<>> THEN b
    ELSE IF b = <<>> THEN a
    ELSE a \o b

unite(a, b) ==
    IF a = <<>> THEN b
    ELSE IF b = <<>> THEN a
    ELSE normalize(a \o b)

\* the nested loops of intersect(): every non-empty a[i] & b[j], in loop order
RECURSIVE intersect_row(_, _)
intersect_row(x, b) ==
    IF b = <<>> THEN <<>>
    ELSE LET intersection == interval_intersect(x, Head(b))
         IN  (IF interval_empty(intersection) THEN <<>> ELSE <<intersection>>)
             \o intersect_row(x, Tail(b))

RECURSIVE intersect_rows(_, _)
intersect_rows(a, b) ==
    IF a = <<>> THEN <<>>
    ELSE intersect_row(Head(a), b) \o intersect_rows(Tail(a), b)

intersect(a, b) ==
    IF a = <<>> \/ b = <<>> THEN <<>>
    ELSE normalize(intersect_rows(a, b))

\* ------------------------------------------------------------------------
\* Set relations
\* ------------------------------------------------------------------------

\* contains(const I&): the loop over the components, from position k on
RECURSIVE contains_interval_from(_, _, _)
contains_interval_from(s, q, k) ==
    IF k > Len(s) THEN FALSE
    ELSE IF interval_subset_of(q, s[k]) THEN TRUE
    ELSE contains_interval_from(s, q, k + 1)

contains_interval(s, q) ==
    IF interval_empty(q) THEN TRUE ELSE contains_interval_from(s, q, 1)

\* subset_of(other): the loop over the components of a, from position k on
RECURSIVE subset_of_from(_, _, _)
subset_of_from(a, b, k) ==
    IF k > Len(a) THEN TRUE
    ELSE IF ~contains_interval(b, a[k]) THEN FALSE
    ELSE subset_of_from(a, b, k + 1)

subset_of(a, b) == subset_of_from(a, b, 1)

superset_of(a, b) == subset_of(b, a)

disjoint_from(a, b) == intersect(a, b) = <<>>

overlaps(a, b) == ~disjoint_from(a, b)

\* operator== of disjoint_interval_set: std::vector equality, element by element
equals(a, b) ==
    Len(a) = Len(b) /\ \A k \in 1..Len(a) : interval_eq(a[k], b[k])

\* faulty variant: each gap copies the closedness of the components around it
between_copied_closedness(s) ==
    [i \in 1..(Len(s) - 1) |->
        interval(s[i].upper, s[i + 1].lower,
                 is_right_closed(s[i]), is_left_closed(s[i + 1]))]

\* the "between intervals" loop shared by complement() and gaps()
between(s) ==
    [i \in 1..(Len(s) - 1) |->
        interval(s[i].upper, s[i + 1].lower,
                 ~is_right_closed(s[i]), ~is_left_closed(s[i + 1]))]

\* faulty variant: the gaps before and after copy the closedness of the
\* adjoining component instead of negating it
complement_copied_closedness(s) ==
    IF s = <<>> THEN unbounded
    ELSE (IF s[1].lower /= -Inf
          THEN <<interval(-Inf, s[1].lower, FALSE, is_left_closed(s[1]))>>
          ELSE <<>>)
         \o between(s)
         \o (IF s[Len(s)].upper /= Inf
             THEN <<interval(s[Len(s)].upper, Inf, is_right_closed(s[Len(s)]), FALSE)>>
             ELSE <<>>)

complement(s) ==
    IF s = <<>> THEN unbounded
    ELSE LET first_lower == s[1].lower
             last_upper == s[Len(s)].upper
             before == IF first_lower /= -Inf
                       THEN <<interval(-Inf, first_lower, FALSE, ~is_left_closed(s[1]))>>
                       ELSE <<>>
             after == IF last_upper /= Inf
                      THEN <<interval(last_upper, Inf, ~is_right_closed(s[Len(s)]), FALSE)>>
                      ELSE <<>>
         IN  before \o between(s) \o after

difference(a, b) == intersect(a, complement(b))

symmetric_difference(a, b) == difference(unite(a, b), intersect(a, b))

gaps(s) == IF Len(s) <= 1 THEN <<>> ELSE between(s)

\* span()
span(s) ==
    IF s = <<>> THEN interval_default
    ELSE closed(s[1].lower, s[Len(s)].upper)

\* std::accumulate over the components, adding interval.length() to sum
RECURSIVE accumulate(_, _)
accumulate(sum, s) ==
    IF s = <<>> THEN sum
    ELSE accumulate(sum + interval_length(Head(s)), Tail(s))

measure(s) == accumulate(0, s)

gap_measure(s) == measure(gaps(s))

\* density(): the quotient of two doubles, kept as dividend and divisor; a
\* divisor of 0 is a division by zero
density(s) ==
    LET sp == span(s)
    IN  IF interval_empty(sp) THEN [dividend |-> 0, divisor |-> 1]
        ELSE [dividend |-> measure(s), divisor |-> interval_length(sp)]

\* filter(predicate): keep is the set of positions the predicate accepts
RECURSIVE filter_from(_, _, _)
filter_from(s, keep, i) ==
    IF i > Len(s) THEN <<>>
    ELSE (IF i \in keep THEN <<s[i]>> ELSE <<>>) \o filter_from(s, keep, i + 1)

filter(s, keep) == filter_from(s, keep, 1)

\* ------------------------------------------------------------------------
\* Modifiers
\* ------------------------------------------------------------------------

insert(s, i) == IF interval_empty(i) THEN s ELSE normalize(Append(s, i))

\* the iterator insert(I) returns, as a position of the collection after the
\* call: begin() is the first position, end() the one past the last
insert_returns(s, i) ==
    IF interval_empty(i) THEN Len(s) + 1 ELSE 1

\* Element access.  A call ends as the pair <<how, value>>: "returned" with
\* the value, "out_of_range" for the std::out_of_range std::vector::at throws,
\* "undefined" where std::vector leaves the behaviour undefined; garbage is
\* then whatever the reference happens to designate.

\* faulty variant: at() goes through the unchecked operator[]
at_unchecked(s, index, garbage) ==
    IF index < Len(s) THEN <<"returned", s[index + 1]>>
    ELSE <<"undefined", garbage>>

\* at(size_type index): intervals_.at(index)
at(s, index, garbage) ==
    IF index < Len(s) THEN <<"returned", s[index + 1]>>
    ELSE <<"out_of_range", index>>

\* operator[](size_type index): intervals_[index]
subscript(s, index, garbage) ==
    IF index < Len(s) THEN <<"returned", s[index + 1]>>
    ELSE <<"undefined", garbage>>

\* front(): intervals_.front()
front(s, garbage) ==
    IF s /= <<>> THEN <<"returned", s[1]>> ELSE <<"undefined", garbage>>

\* back(): intervals_.back()
back(s, garbage) ==
    IF s /= <<>> THEN <<"returned", s[Len(s)]>> ELSE <<"undefined", garbage>>

\* erase(const_iterator first, const_iterator last): positions first..last-1 go
erase_range(s, first, last_) == SubSeq(s, 1, first - 1) \o SubSeq(s, last_, Len(s))

\* std::find(begin, end, interval): the first position equal to i, or end
RECURSIVE find(_, _, _)
find(s, i, k) ==
    IF k > Len(s) THEN k
    ELSE IF interval_eq(s[k], i) THEN k
    ELSE find(s, i, k + 1)

\* erase(const I&)
erase_value(s, i) ==
    LET it == find(s, i, 1)
    IN  IF it /= Len(s) + 1 THEN erase_range(s, it, it + 1) ELSE s

subtract(s, b) == difference(s, b)

remove(s, i) == subtract(s, from_list(<<i>>))

\* ------------------------------------------------------------------------
\* The state machine: one collection, a second collection serving as the
\* argument of the binary operations, and the reference point set
\* ------------------------------------------------------------------------

\* every interval value the 4-argument constructor can produce from the bounds
Intervals ==
    {interval(l, u, lc, rc) : l \in BoundValues, u \in BoundValues,
                              lc \in BOOLEAN, rc \in BOOLEAN}

Lists == UNION {[1..n -> Intervals] : n \in 0..MaxList}

\* the finite values an interval contains
points_of(i) == {v \in FinitePoints : interval_contains(i, v)}

\* both intervals default-constructed, nothing applied yet
InitIntervals ==
    /\ iv = interval_default
    /\ jv = interval_default
    /\ ctor = <<>>
    /\ op = "default"
    /\ ret = <<>>

Init ==
    /\ \E list \in Lists :
          /\ intervals_ = from_list(list)
          /\ other = <<>>
          /\ ref = {}
          /\ last = "init"
    /\ InitIntervals

\* the ghost variables move only in the tracked insert / remove runs below
Becomes(s) ==
    /\ intervals_' = s
    /\ UNCHANGED <<other, ref, last>>
    /\ UNCHANGED ivars

Insert(i) == Becomes(insert(intervals_, i))

Remove(i) == Becomes(remove(intervals_, i))

EraseRange(first, last_) == Becomes(erase_range(intervals_, first, last_))

EraseValue(i) == Becomes(erase_value(intervals_, i))

Clear == Becomes(<<>>)

Coalesce == Becomes(normalize(intervals_))

UniteAssign == Becomes(unite(intervals_, other))

IntersectAssign == Becomes(intersect(intervals_, other))

DifferenceAssign == Becomes(subtract(intervals_, other))

SymmetricDifferenceAssign == Becomes(symmetric_difference(intervals_, other))

AssignComplement == Becomes(complement(intervals_))

AssignGaps == Becomes(gaps(intervals_))

AssignFilter(keep) == Becomes(filter(intervals_, keep))

Swap ==
    /\ intervals_' = other
    /\ other' = intervals_
    /\ UNCHANGED <<ref, last>>
    /\ UNCHANGED ivars

Next ==
    \/ \E i \in Intervals : Insert(i)
    \/ \E i \in Intervals : Remove(i)
    \/ \E first \in 1..Len(intervals_) : \E last_ \in first..(Len(intervals_) + 1) :
            EraseRange(first, last_)
    \/ \E i \in Intervals : EraseValue(i)
    \/ Clear
    \/ Coalesce
    \/ UniteAssign
    \/ IntersectAssign
    \/ DifferenceAssign
    \/ SymmetricDifferenceAssign
    \/ AssignComplement
    \/ AssignGaps
    \/ \E keep \in SUBSET (1..Len(intervals_)) : AssignFilter(keep)
    \/ Swap

Spec == Init /\ [][Next]_vars

\* ------------------------------------------------------------------------
\* The tracked run: from the empty collection, insert / add and remove only,
\* with the reference point set kept by plain set union and subtraction
\* ------------------------------------------------------------------------

InitEmpty ==
    /\ intervals_ = <<>>
    /\ other = <<>>
    /\ ref = {}
    /\ last = "init"
    /\ InitIntervals

TrackedInsert(i) ==
    /\ intervals_' = insert(intervals_, i)
    /\ ref' = ref \cup points_of(i)
    /\ last' = "insert"
    /\ UNCHANGED other
    /\ UNCHANGED ivars

TrackedRemove(i) ==
    /\ intervals_' = remove(intervals_, i)
    /\ ref' = ref \ points_of(i)
    /\ last' = "remove"
    /\ UNCHANGED other
    /\ UNCHANGED ivars

NextInsertRemove ==
    \/ \E i \in Intervals : TrackedInsert(i)
    \/ \E i \in Intervals : TrackedRemove(i)

SpecInsertRemove == InitEmpty /\ [][NextInsertRemove]_vars

\* ------------------------------------------------------------------------
\* The interval-level runs: two intervals built by the 4-argument
\* constructor from the bound values, and the operations of interval applied
\* to them
\* ------------------------------------------------------------------------

InitIntervalRun ==
    /\ InitIntervals
    /\ intervals_ = <<>>
    /\ other = <<>>
    /\ ref = {}
    /\ last = "init"

svars == <<intervals_, other, ref, last>>

Construct(l, u, lc, rc) ==
    /\ iv' = interval(l, u, lc, rc)
    /\ ctor' = <<l, u, lc, rc>>
    /\ op' = "construct"
    /\ ret' = iv'
    /\ UNCHANGED <<jv, svars>>

ConstructOther(l, u, lc, rc) ==
    /\ jv' = interval(l, u, lc, rc)
    /\ ctor' = <<>>
    /\ op' = "construct_other"
    /\ ret' = jv'
    /\ UNCHANGED <<iv, svars>>

\* iv.name(jv) is called and returns value
Returns(name, value) ==
    /\ op' = name
    /\ ret' = value
    /\ ctor' = <<>>
    /\ UNCHANGED <<iv, jv, svars>>

SubsetOf == Returns("subset_of", interval_subset_of(iv, jv))

SupersetOf == Returns("superset_of", interval_superset_of(iv, jv))

Overlaps == Returns("overlaps", interval_overlaps(iv, jv))

DisjointFrom == Returns("disjoint_from", interval_disjoint_from(iv, jv))

AdjacentTo == Returns("adjacent_to", interval_adjacent_to(iv, jv))

Intersect == Returns("intersect", interval_intersect(iv, jv))

Hull == Returns("hull", interval_hull(iv, jv))

Equals == Returns("equals", interval_eq(iv, jv))

NextInterval ==
    \/ \E l \in BoundValues : \E u \in BoundValues :
         \E lc \in BOOLEAN : \E rc \in BOOLEAN : Construct(l, u, lc, rc)
    \/ \E l \in BoundValues : \E u \in BoundValues :
         \E lc \in BOOLEAN : \E rc \in BOOLEAN : ConstructOther(l, u, lc, rc)
    \/ SubsetOf
    \/ SupersetOf
    \/ Overlaps
    \/ DisjointFrom
    \/ AdjacentTo
    \/ Intersect
    \/ Hull
    \/ Equals

SpecInterval == InitIntervalRun /\ [][NextInterval]_vars

\* ------------------------------------------------------------------------
\* An integer scalar: interval<int> and disjoint_interval_set<interval<int>>
\* over the bounds 0 .. MaxInt
\* ------------------------------------------------------------------------

IntBounds == 0..MaxInt

IntIntervals ==
    {interval(l, u, lc, rc) : l \in IntBounds, u \in IntBounds,
                              lc \in BOOLEAN, rc \in BOOLEAN}

\* insert(i) on the collection; other keeps the collection as it was before
\* the call, iv the argument and ret the position returned
InsertInteger(i) ==
    /\ intervals_' = insert(intervals_, i)
    /\ other' = intervals_
    /\ iv' = i
    /\ op' = "insert"
    /\ ret' = insert_returns(intervals_', i)
    /\ UNCHANGED <<ref, last, jv, ctor>>

NextIntegerInsert == \E i \in IntIntervals : InsertInteger(i)

SpecIntegerInsert == InitEmpty /\ [][NextIntegerInsert]_vars

\* the interval-level runs over the integer bounds
DistanceTo == Returns("distance_to", interval_distance_to(iv, jv))

Length == Returns("length", interval_length(iv))

NextIntegerInterval ==
    \/ \E l \in IntBounds : \E u \in IntBounds :
         \E lc \in BOOLEAN : \E rc \in BOOLEAN : Construct(l, u, lc, rc)
    \/ \E l \in IntBounds : \E u \in IntBounds :
         \E lc \in BOOLEAN : \E rc \in BOOLEAN : ConstructOther(l, u, lc, rc)
    \/ DistanceTo
    \/ Length
    \/ Overlaps

SpecIntegerInterval == InitIntervalRun /\ [][NextIntegerInterval]_vars

\* the collection-level runs over the integer bounds: the collection is
\* built by insert and taken apart by erase(pos), and every query and every
\* element access is called on it; ctor keeps the argument of the call and
\* ret the pair <<how the call ended, value>>
Ends(name, args, outcome) ==
    /\ op' = name
    /\ ctor' = args
    /\ ret' = outcome
    /\ UNCHANGED <<intervals_, other, ref, last, iv, jv>>

Add(i) ==
    /\ intervals_' = insert(intervals_, i)
    /\ op' = "insert"
    /\ ctor' = <<i>>
    /\ ret' = <<"returned", insert_returns(intervals_', i)>>
    /\ UNCHANGED <<other, ref, last, iv, jv>>

\* erase(const_iterator pos): pos = end() is outside the precondition of
\* std::vector::erase; the builds either leave the vector alone or drop its
\* last element
ErasePos(pos) ==
    /\ op' = "erase"
    /\ ctor' = <<pos>>
    /\ IF pos <= Len(intervals_)
       THEN /\ intervals_' = erase_range(intervals_, pos, pos + 1)
            /\ ret' = <<"returned", pos>>
       ELSE /\ intervals_' \in {intervals_, SubSeq(intervals_, 1, Len(intervals_) - 1)}
            /\ ret' = <<"undefined", pos>>
    /\ UNCHANGED <<other, ref, last, iv, jv>>

Span == Ends("span", <<>>, <<"returned", span(intervals_)>>)

Gaps == Ends("gaps", <<>>, <<"returned", gaps(intervals_)>>)

Measure == Ends("measure", <<>>, <<"returned", measure(intervals_)>>)

GapMeasure == Ends("gap_measure", <<>>, <<"returned", gap_measure(intervals_)>>)

Density == Ends("density", <<>>, <<"returned", density(intervals_)>>)

Front == \E garbage \in IntIntervals : Ends("front", <<>>, front(intervals_, garbage))

Back == \E garbage \in IntIntervals : Ends("back", <<>>, back(intervals_, garbage))

At(index) ==
    \E garbage \in IntIntervals : Ends("at", <<index>>, at(intervals_, index, garbage))

Subscript(index) ==
    \E garbage \in IntIntervals :
        Ends("subscript", <<index>>, subscript(intervals_, index, garbage))

NextIntegerQueries ==
    \/ \E i \in IntIntervals : Add(i)
    \/ \E pos \in 1..(Len(intervals_) + 1) : ErasePos(pos)
    \/ Span
    \/ Gaps
    \/ Measure
    \/ GapMeasure
    \/ Density
    \/ Front
    \/ Back
    \/ \E index \in 0..Len(intervals_) : At(index)
    \/ \E index \in 0..Len(intervals_) : Subscript(index)

SpecIntegerQueries == InitEmpty /\ [][NextIntegerQueries]_vars

\* ------------------------------------------------------------------------
\* The order of supply: a list of intervals is handed to the list
\* constructor, handed to it again with two neighbours exchanged, or handed
\* to insert one interval at a time.  ctor is the list as last supplied,
\* other the collection constructed from the list as first supplied.
\* ------------------------------------------------------------------------

OrderLists == UNION {[1..n -> Intervals] : n \in 0..(MaxList + 1)}

\* insert(I) called on s once per element of list, in the order of the list
RECURSIVE insert_each(_, _)
insert_each(s, list) ==
    IF list = <<>> THEN s ELSE insert_each(insert(s, Head(list)), Tail(list))

InitOrder ==
    /\ \E list \in OrderLists :
          /\ ctor = list
          /\ intervals_ = from_list(list)
          /\ other = from_list(list)
    /\ op = "from_list"
    /\ ret = <<>>
    /\ iv = interval_default
    /\ jv = interval_default
    /\ ref = {}
    /\ last = "init"

\* the list with positions k and k+1 exchanged goes to the list constructor
Transpose(k) ==
    /\ ctor' = [ctor EXCEPT ![k] = ctor[k + 1], ![k + 1] = ctor[k]]
    /\ intervals_' = from_list(ctor')
    /\ op' = "from_permuted_list"
    /\ UNCHANGED <<other, ref, last, iv, jv, ret>>

\* the list goes, element by element, to insert on an empty collection
InsertEach ==
    /\ intervals_' = insert_each(<<>>, ctor)
    /\ op' = "insert_each"
    /\ UNCHANGED <<ctor, other, ref, last, iv, jv, ret>>

NextOrder ==
    \/ \E k \in 1..(Len(ctor) - 1) : Transpose(k)
    \/ InsertEach

SpecOrder == InitOrder /\ [][NextOrder]_vars

\* ------------------------------------------------------------------------
\* Properties
\* ------------------------------------------------------------------------

\* a lies wholly below b, and the two cannot be fused into one interval
Separated(a, b) ==
    \/ a.upper < b.lower
    \/ (a.upper = b.lower /\ ~a.right_closed /\ ~b.left_closed)

Normalized(s) ==
    /\ \A k \in 1..Len(s) :
          \/ s[k].lower < s[k].upper
          \/ (s[k].lower = s[k].upper /\ s[k].left_closed /\ s[k].right_closed)
    /\ \A k \in 1..(Len(s) - 1) : interval_less(s[k], s[k + 1]) /\ Separated(s[k], s[k + 1])
    /\ \A j \in 1..Len(s) : \A k \in 1..Len(s) :
          j /= k => ~interval_overlaps(s[j], s[k]) /\ ~interval_adjacent_to(s[j], s[k])

\* some component of s contains v
SomeComponentContains(s, v) == \E k \in 1..Len(s) : interval_contains(s[k], v)

\* C1: every collection reachable through the constructors, the modifiers and
\* the compound assignments, and every collection returned by unite,
\* intersect, complement, difference, symmetric_difference, gaps and filter,
\* has non-empty components in strictly ascending order, no two of which
\* overlap or are adjacent.
C1_AlwaysNormalized ==
    /\ Normalized(intervals_)
    /\ Normalized(other)
    /\ Normalized(unite(intervals_, other))
    /\ Normalized(intersect(intervals_, other))
    /\ Normalized(complement(intervals_))
    /\ Normalized(difference(intervals_, other))
    /\ Normalized(symmetric_difference(intervals_, other))
    /\ Normalized(gaps(intervals_))
    /\ \A keep \in SUBSET (1..Len(intervals_)) : Normalized(filter(intervals_, keep))

\* a collection of three components next to an argument whose union with it
\* had to merge components
C1_Witness ==
    /\ Len(intervals_) >= 3
    /\ Len(other) >= 2
    /\ Len(unite(intervals_, other)) < Len(intervals_)
    /\ Len(complement(intervals_)) >= 2

\* C2: contains(value) (binary search on the upper bounds, then a test of the
\* one candidate) is true exactly when some component contains the value; on
\* the empty collection it is false for every value.
C2_ContainsIsMembership ==
    /\ \A v \in AllPoints :
          contains(intervals_, v) <=> SomeComponentContains(intervals_, v)
    /\ \A v \in AllPoints : ~contains(<<>>, v)

\* three components, a value found in the last one and a value in none
C2_Witness ==
    /\ Len(intervals_) >= 3
    /\ \E v \in FinitePoints : interval_contains(intervals_[Len(intervals_)], v)
    /\ \E v \in FinitePoints : ~SomeComponentContains(intervals_, v)
    /\ \E v \in FinitePoints : v = intervals_[1].upper /\ ~intervals_[1].right_closed

\* C3: from the empty collection, after any sequence of insert / add and
\* remove calls, contains(v) holds for a finite v exactly when v is in the
\* point set built by the same sequence of set unions and set subtractions.
C3_RefinesPointSet ==
    \A v \in FinitePoints : contains(intervals_, v) <=> v \in ref

\* a remove has just split the collection into two components
C3_Witness ==
    /\ last = "remove"
    /\ Len(intervals_) >= 2
    /\ ref /= {}

\* C4: complement(A) contains a finite value exactly when A does not; the
\* complement of the empty collection is the one component (-inf, +inf) and
\* the complement of that collection is empty.
C4_ComplementPointwise ==
    /\ \A v \in FinitePoints :
          contains(complement(intervals_), v) <=> ~contains(intervals_, v)
    /\ complement(<<>>) = <<open(-Inf, Inf)>>
    /\ complement(<<open(-Inf, Inf)>>) = <<>>

\* a collection with a gap before, between and after its components, whose
\* complement is open where the collection is closed
C4_Witness ==
    /\ Len(intervals_) >= 2
    /\ Len(complement(intervals_)) = Len(intervals_) + 1
    /\ intervals_[1].left_closed
    /\ ~complement(intervals_)[1].right_closed

\* C5: complement(complement(A)) == A for every collection A that can be
\* constructed, whatever the closedness of a component at an infinite bound.
C5_DoubleComplement ==
    complement(complement(intervals_)) = intervals_

\* C6: De Morgan: complement(unite(A, B)) == intersect(complement(A),
\* complement(B)), as component sequences and value by value.
C6_DeMorgan ==
    LET lhs == complement(unite(intervals_, other))
        rhs == intersect(complement(intervals_), complement(other))
    IN  /\ lhs = rhs
        /\ \A v \in AllPoints : contains(lhs, v) <=> contains(rhs, v)

\* two non-empty operands, neither inside the other, whose union leaves gaps
C6_Witness ==
    /\ Len(intervals_) >= 2
    /\ Len(other) >= 2
    /\ intersect(intervals_, other) /= intervals_
    /\ intersect(intervals_, other) /= other
    /\ Len(complement(unite(intervals_, other))) >= 2

\* C7: intersect(A, complement(A)) is empty and unite(A, complement(A)) is
\* the one component (-inf, +inf).
C7_ComplementPair ==
    /\ intersect(intervals_, complement(intervals_)) = <<>>
    /\ unite(intervals_, complement(intervals_)) = unbounded

\* C8: difference(A, B) contains v exactly when A contains v and B does not;
\* closed(0,10) minus closed(3,5) is [0,3) and (5,10]; A - A is empty and
\* A - empty == A.
C8_DifferencePointwise ==
    /\ \A v \in AllPoints :
          contains(difference(intervals_, other), v)
              <=> (contains(intervals_, v) /\ ~contains(other, v))
    /\ difference(<<closed(0, 10)>>, <<closed(3, 5)>>)
          = <<right_open(0, 3), left_open(5, 10)>>
    /\ difference(intervals_, intervals_) = <<>>
    /\ difference(intervals_, <<>>) = intervals_

\* C9: difference(unite(A,B), intersect(A,B)) == unite(difference(A,B),
\* difference(B,A)); the result contains v exactly when exactly one of A, B
\* does; A ^ A is empty and A ^ empty == A.
C9_SymmetricDifference ==
    /\ symmetric_difference(intervals_, other)
          = unite(difference(intervals_, other), difference(other, intervals_))
    /\ \A v \in AllPoints :
          contains(symmetric_difference(intervals_, other), v)
              <=> (contains(intervals_, v) /= contains(other, v))
    /\ symmetric_difference(intervals_, intervals_) = <<>>
    /\ symmetric_difference(intervals_, <<>>) = intervals_

\* C10: unite(A, empty) == A == unite(empty, A); intersect with the empty
\* collection is empty on either side; unite(A, A) == A == intersect(A, A).
C10_IdentityIdempotence ==
    /\ unite(intervals_, <<>>) = intervals_
    /\ unite(<<>>, intervals_) = intervals_
    /\ intersect(intervals_, <<>>) = <<>>
    /\ intersect(<<>>, intervals_) = <<>>
    /\ unite(intervals_, intervals_) = intervals_
    /\ intersect(intervals_, intervals_) = intervals_

\* a collection of several components, some of them single points
C10_Witness ==
    /\ Len(intervals_) >= 3
    /\ \E k \in 1..Len(intervals_) : intervals_[k].lower = intervals_[k].upper
    /\ \E k \in 1..Len(intervals_) : intervals_[k].lower < intervals_[k].upper

\* every sample value some component of a contains is contained in b
PointwiseSubset(a, b) ==
    \A v \in AllPoints : SomeComponentContains(a, v) => SomeComponentContains(b, v)

\* C11: normalize is idempotent: coalesce() leaves a reachable collection
\* equal to what it was, and the collection constructed from components()
\* equals the collection.
C11_NormalizeIdempotent ==
    /\ equals(normalize(intervals_), intervals_)
    /\ equals(from_list(intervals_), intervals_)
    /\ normalize(normalize(intervals_ \o other)) = normalize(intervals_ \o other)

\* several components, and an argument that normalize has to merge into them
C11_Witness ==
    /\ Len(intervals_) >= 3
    /\ Len(other) >= 2
    /\ Len(normalize(intervals_ \o other)) < Len(intervals_)

\* C12: A.subset_of(B) is true exactly when every value contained in A is
\* contained in B, also when components share a bound value and differ in
\* closedness there; the empty collection is a subset of every collection
\* and every collection is a subset of itself.
C12_SubsetIsInclusion ==
    /\ subset_of(intervals_, other) <=> PointwiseSubset(intervals_, other)
    /\ subset_of(<<>>, intervals_)
    /\ subset_of(intervals_, intervals_)

\* C13: subset antisymmetry: A.subset_of(B) and B.subset_of(A) hold together
\* if and only if A == B.
C13_SubsetAntisymmetry ==
    (subset_of(intervals_, other) /\ subset_of(other, intervals_))
        <=> equals(intervals_, other)

\* two equal collections of several components whose bounds are partly open
C13_Witness ==
    /\ Len(intervals_) >= 2
    /\ equals(intervals_, other)
    /\ subset_of(intervals_, other)
    /\ \E k \in 1..Len(intervals_) : ~intervals_[k].left_closed

\* C14: S.contains(q) is true exactly when every value of q is contained in
\* S: an empty q always, a q spanning a gap never, a q inside one component
\* whatever the closedness of q and of the component at a shared bound.
C14_ContainsIntervalIsInclusion ==
    \A q \in Intervals :
        contains_interval(intervals_, q)
            <=> (\A v \in AllPoints :
                    interval_contains(q, v) => SomeComponentContains(intervals_, v))

\* the sample values two intervals have in common
SharedPoints(a, b) == {v \in AllPoints : interval_contains(a, v) /\ interval_contains(b, v)}

\* the sample values of a and b together leave no hole between them
UnionIsConvex(a, b) ==
    LET u == {v \in AllPoints : interval_contains(a, v) \/ interval_contains(b, v)}
    IN  \A x \in u : \A y \in u : \A v \in AllPoints : (x < v /\ v < y) => v \in u

\* C15: a.subset_of(b) is true exactly when every value contained in a is
\* contained in b (at a shared bound a may be closed only if b is); the empty
\* interval is a subset of every interval, and no non-empty interval is a
\* subset of the empty one.
C15_IntervalSubsetIsInclusion ==
    /\ op = "subset_of" =>
          (ret <=> \A v \in AllPoints : interval_contains(iv, v) => interval_contains(jv, v))
    /\ op = "superset_of" =>
          (ret <=> \A v \in AllPoints : interval_contains(jv, v) => interval_contains(iv, v))

\* C16: a.intersect(b) contains v exactly when a and b both do; at a tied
\* bound it is closed only if both operands are; it is the canonical empty
\* interval when the bounds cross or collapse to a point not closed on both
\* sides; and a.intersect(b) == b.intersect(a).
C16_IntersectPointwise ==
    op = "intersect" =>
        /\ \A v \in AllPoints :
              interval_contains(ret, v) <=> (interval_contains(iv, v) /\ interval_contains(jv, v))
        /\ (~interval_empty(ret) /\ iv.lower = jv.lower) =>
              (ret.left_closed <=> (iv.left_closed /\ jv.left_closed))
        /\ (~interval_empty(ret) /\ iv.upper = jv.upper) =>
              (ret.right_closed <=> (iv.right_closed /\ jv.right_closed))
        /\ SharedPoints(iv, jv) = {} => ret = interval_default
        /\ interval_eq(ret, interval_intersect(jv, iv))

\* two intervals with the same lower bound, one closed and one open there
C16_Witness ==
    /\ op = "intersect"
    /\ ~interval_empty(ret)
    /\ iv.lower = jv.lower
    /\ iv.left_closed /= jv.left_closed
    /\ iv.upper /= jv.upper

\* C17: for non-empty a and b, a.hull(b) has a value exactly when a and b
\* overlap or are adjacent; the value contains v exactly when a or b does;
\* with one operand empty hull returns the other operand, and the hull of
\* two empty intervals is a present, empty interval.
C17_HullIsUnion ==
    op = "hull" =>
        /\ (~interval_empty(iv) /\ ~interval_empty(jv)) =>
              /\ ret /= <<>> <=> (interval_overlaps(iv, jv) \/ interval_adjacent_to(iv, jv))
              /\ ret /= <<>> <=> UnionIsConvex(iv, jv)
              /\ ret /= <<>> =>
                    \A v \in AllPoints :
                        interval_contains(ret[1], v)
                            <=> (interval_contains(iv, v) \/ interval_contains(jv, v))
        /\ interval_empty(iv) => ret = <<jv>>
        /\ interval_empty(jv) => ret = <<iv>>
        /\ (interval_empty(iv) /\ interval_empty(jv)) =>
              (Len(ret) = 1 /\ interval_empty(ret[1]))

\* two adjacent intervals with different bounds are joined into one
C17_Witness ==
    /\ op = "hull"
    /\ interval_adjacent_to(iv, jv)
    /\ ret /= <<>>
    /\ ret[1] /= iv
    /\ ret[1] /= jv

\* C18: a.adjacent_to(b) is symmetric, false when either operand is empty,
\* never true together with a.overlaps(b), and true exactly when a and b
\* share no value while their union is one interval without a gap.
C18_AdjacentIsTiling ==
    op = "adjacent_to" =>
        /\ ret <=> interval_adjacent_to(jv, iv)
        /\ (interval_empty(iv) \/ interval_empty(jv)) => ~ret
        /\ ~(ret /\ interval_overlaps(iv, jv))
        /\ ret <=> (/\ ~interval_empty(iv)
                    /\ ~interval_empty(jv)
                    /\ SharedPoints(iv, jv) = {}
                    /\ UnionIsConvex(iv, jv))

\* a single point adjacent to the open end of the interval below it
C18_Witness ==
    /\ op = "adjacent_to"
    /\ ret
    /\ iv.lower = iv.upper
    /\ jv.upper = iv.lower
    /\ jv.lower < jv.upper

\* the components of a collection, and the empty interval
Operands(s) == {s[k] : k \in 1..Len(s)} \cup {interval_default}

\* C19: a.overlaps(b) == !a.intersect(b).empty() == (some value is in both);
\* overlaps is symmetric, disjoint_from is its negation, and both overlaps
\* results are false when an operand is empty; A.overlaps(B) for collections
\* is true exactly when some value is contained in both.
C19_OverlapsIsSharing ==
    /\ \A a \in Operands(intervals_) : \A b \in Operands(other) :
          /\ interval_overlaps(a, b) <=> ~interval_empty(interval_intersect(a, b))
          /\ interval_overlaps(a, b) <=> SharedPoints(a, b) /= {}
          /\ interval_overlaps(a, b) <=> interval_overlaps(b, a)
          /\ interval_disjoint_from(a, b) <=> ~interval_overlaps(a, b)
          /\ (interval_empty(a) \/ interval_empty(b)) =>
                (~interval_overlaps(a, b) /\ ~interval_overlaps(b, a))
    /\ overlaps(intervals_, other)
          <=> (\E v \in AllPoints : contains(intervals_, v) /\ contains(other, v))
    /\ disjoint_from(intervals_, other) <=> ~overlaps(intervals_, other)

\* two collections that only touch at a bound closed in one and open in the
\* other, and two that share a closed bound
C19_Witness ==
    /\ Len(intervals_) >= 2
    /\ Len(other) >= 1
    /\ \E k \in 1..Len(intervals_) :
          /\ intervals_[k].upper = other[1].lower
          /\ intervals_[k].right_closed
          /\ ~other[1].left_closed
    /\ \E k \in 1..Len(intervals_) :
          /\ intervals_[k].lower = other[1].upper
          /\ intervals_[k].left_closed
          /\ other[1].right_closed
    /\ overlaps(intervals_, other)

\* C20: an interval built with lower > upper, or with lower == upper and a
\* boundary open, by the 4-argument constructor or by a factory, is empty,
\* == to the default-constructed interval and to every other empty interval,
\* contains no value, has no lower_bound() and no upper_bound(), and reports
\* both boundaries as not closed.
C20_EmptyIsCanonical ==
    op = "construct" =>
        LET l == ctor[1]
            u == ctor[2]
            built == {ret} \cup
                     (IF ctor[3] /\ ctor[4] THEN {closed(l, u)} ELSE {}) \cup
                     (IF ~ctor[3] /\ ~ctor[4] THEN {open(l, u)} ELSE {}) \cup
                     (IF ~ctor[3] /\ ctor[4] THEN {left_open(l, u)} ELSE {}) \cup
                     (IF ctor[3] /\ ~ctor[4] THEN {right_open(l, u)} ELSE {})
        IN  (l > u \/ (l = u /\ (~ctor[3] \/ ~ctor[4]))) =>
                \A e \in built :
                    /\ interval_empty(e)
                    /\ interval_eq(e, interval_default)
                    /\ interval_empty(jv) => interval_eq(e, jv)
                    /\ interval_eq(e, interval_intersect(e, jv))
                    /\ \A v \in AllPoints : ~interval_contains(e, v)
                    /\ interval_lower_bound(e) = <<>>
                    /\ interval_upper_bound(e) = <<>>
                    /\ ~is_left_closed(e)
                    /\ ~is_right_closed(e)

\* a point with one boundary open, built next to another empty interval
C20_Witness ==
    /\ op = "construct"
    /\ ctor[1] = ctor[2]
    /\ ctor[3]
    /\ ~ctor[4]
    /\ interval_empty(ret)
    /\ interval_empty(jv)

\* a and b cross, or meet at a bound value that one of them contains
Meets(a, b) ==
    \/ (a.lower < b.upper /\ b.lower < a.upper)
    \/ (a.upper = b.lower /\ (a.right_closed \/ b.left_closed))
    \/ (b.upper = a.lower /\ (b.right_closed \/ a.left_closed))

\* the components of a collection, as a set
Components(s) == {s[k] : k \in 1..Len(s)}

\* C21: intervals are merged only when they overlap or touch at a shared
\* bound value: inserting a non-empty interval fuses exactly the components
\* that meet it and keeps every other component as it was.  Over an integer
\* scalar closed(a,b) and closed(b+1,c) are not adjacent and stay 2
\* components, closed(a,b) with open(b,c) or closed(b,c) becomes 1
\* component, and right_open(a,b) with left_open(b,c) stays 2 components.
C21_MergeOnlyWhenMeeting ==
    (op = "insert" /\ ~interval_empty(iv)) =>
        /\ Len(intervals_) =
              (Len(other) + 1) - Cardinality({k \in 1..Len(other) : Meets(other[k], iv)})
        /\ \A k \in 1..Len(other) :
              ~Meets(other[k], iv) => other[k] \in Components(intervals_)
        /\ (\A k \in 1..Len(other) : ~Meets(other[k], iv)) => iv \in Components(intervals_)
        /\ \A a \in IntBounds : \A b \in IntBounds : \A c \in IntBounds :
              /\ (a <= b /\ b + 1 <= c /\ other = <<closed(a, b)>> /\ iv = closed(b + 1, c)) =>
                    /\ ~interval_adjacent_to(other[1], iv)
                    /\ ~interval_adjacent_to(iv, other[1])
                    /\ intervals_ = <<closed(a, b), closed(b + 1, c)>>
              /\ (a <= b /\ b < c /\ other = <<closed(a, b)>> /\ iv = open(b, c)) =>
                    intervals_ = <<right_open(a, c)>>
              /\ (a <= b /\ b <= c /\ other = <<closed(a, b)>> /\ iv = closed(b, c)) =>
                    intervals_ = <<closed(a, c)>>
              /\ (a < b /\ b < c /\ other = <<right_open(a, b)>> /\ iv = left_open(b, c)) =>
                    intervals_ = <<right_open(a, b), left_open(b, c)>>

\* closed(0,1) was in the collection and closed(2,3) has just been inserted
C21_Witness ==
    /\ op = "insert"
    /\ other = <<closed(0, 1)>>
    /\ iv = closed(2, 3)
    /\ Len(intervals_) = 2

\* every value of i lies in c, judged on the bounds and their closedness
Covers(c, i) ==
    /\ (c.lower < i.lower \/ (c.lower = i.lower /\ (c.left_closed \/ ~i.left_closed)))
    /\ (i.upper < c.upper \/ (c.upper = i.upper /\ (c.right_closed \/ ~i.right_closed)))

\* C26: insert(i) with a non-empty i returns an iterator to the component of
\* the resulting collection that contains i; insert of an empty interval
\* returns end() and leaves the collection unchanged.
C26_InsertReturnsComponent ==
    op = "insert" =>
        IF interval_empty(iv)
        THEN ret = Len(intervals_) + 1 /\ intervals_ = other
        ELSE ret \in 1..Len(intervals_) /\ Covers(intervals_[ret], iv)

\* C24: over a bounded integer scalar a.distance_to(b) == b.distance_to(a),
\* the result is never negative, it is 0 when either operand is empty or the
\* two overlap, and otherwise it is the larger lower bound minus the smaller
\* upper bound, which is 0 for two intervals that touch without overlapping.
C24_DistanceSymmetric ==
    op = "distance_to" =>
        /\ ret = interval_distance_to(jv, iv)
        /\ ret >= 0
        /\ (interval_empty(iv) \/ interval_empty(jv) \/ interval_overlaps(iv, jv)) => ret = 0
        /\ (~interval_empty(iv) /\ ~interval_empty(jv) /\ ~interval_overlaps(iv, jv)) =>
              ret = Max(iv.lower, jv.lower) - Min(iv.upper, jv.upper)

\* C22: span() of a non-empty collection is the smallest interval containing
\* all components: its lower bound and left closedness are those of the
\* first component, its upper bound and right closedness those of the last
\* (the span of {(0,10)} is (0,10)); span() of the empty collection is empty.
C22_SpanIsSmallestCover ==
    op = "span" =>
        LET sp == ret[2]
            n == Len(intervals_)
        IN  IF n = 0 THEN interval_empty(sp)
            ELSE /\ sp.lower = intervals_[1].lower
                 /\ sp.left_closed = intervals_[1].left_closed
                 /\ sp.upper = intervals_[n].upper
                 /\ sp.right_closed = intervals_[n].right_closed

\* the sum of upper - lower over the components
RECURSIVE SumOfWidths(_)
SumOfWidths(s) ==
    IF s = <<>> THEN 0 ELSE (Head(s).upper - Head(s).lower) + SumOfWidths(Tail(s))

\* C29: over a bounded integer scalar, measure() + gap_measure() ==
\* span().length() for every non-empty collection, measure() is the sum of
\* upper - lower over the components whatever their flags, and both
\* measure() and gap_measure() are 0 for the empty collection.
C29_MeasurePlusGaps ==
    /\ op = "measure" =>
          /\ ret[2] = SumOfWidths(intervals_)
          /\ intervals_ /= <<>> =>
                ret[2] + gap_measure(intervals_) = interval_length(span(intervals_))
          /\ intervals_ = <<>> => ret[2] = 0
    /\ op = "gap_measure" =>
          /\ intervals_ /= <<>> =>
                measure(intervals_) + ret[2] = interval_length(span(intervals_))
          /\ intervals_ /= <<>> =>
                SumOfWidths(intervals_) + ret[2] =
                    intervals_[Len(intervals_)].upper - intervals_[1].lower
          /\ intervals_ = <<>> => ret[2] = 0

\* three components, open and closed, with gaps of positive measure
C29_Witness ==
    /\ op = "gap_measure"
    /\ Len(intervals_) >= 3
    /\ ret[2] >= 2
    /\ measure(intervals_) >= 1
    /\ \E k \in 1..Len(intervals_) : ~intervals_[k].left_closed

\* C30: density() never divides by zero: it returns 0 for the empty
\* collection, and for every non-empty collection, a single point included,
\* the divisor span().length() is not 0 and 0 <= density <= 1.
C30_DensityIsRatio ==
    op = "density" =>
        LET d == ret[2]
        IN  /\ d.divisor /= 0
            /\ intervals_ = <<>> => d.dividend = 0
            /\ 0 <= d.dividend
            /\ d.dividend <= d.divisor

LiesAbove(v, c) == v >= c.upper /\ ~interval_contains(c, v)

LiesBelow(v, c) == v <= c.lower /\ ~interval_contains(c, v)

\* C23: for a collection with n components gaps() has exactly n-1
\* components when n >= 2 and is empty when n <= 1; the k-th gap runs from
\* the upper bound of component k to the lower bound of component k+1 with
\* the negated closedness of those boundaries; gaps().contains(v) is true
\* exactly when v is not in the collection but lies above some component and
\* below another.
C23_GapsBetweenComponents ==
    LET n == Len(intervals_)
        g == gaps(intervals_)
    IN  /\ n >= 2 => Len(g) = n - 1
        /\ n <= 1 => g = <<>>
        /\ \A k \in 1..(n - 1) :
              /\ g[k].lower = intervals_[k].upper
              /\ g[k].upper = intervals_[k + 1].lower
              /\ g[k].left_closed = ~intervals_[k].right_closed
              /\ g[k].right_closed = ~intervals_[k + 1].left_closed
        /\ \A v \in AllPoints :
              contains(g, v) <=>
                  /\ ~SomeComponentContains(intervals_, v)
                  /\ \E j \in 1..n : LiesAbove(v, intervals_[j])
                  /\ \E k \in 1..n : LiesBelow(v, intervals_[k])

\* three components or more, one gap a single closed point and one gap open
C23_Witness ==
    /\ Len(intervals_) >= 3
    /\ \E k \in 1..(Len(intervals_) - 1) :
          gaps(intervals_)[k].lower = gaps(intervals_)[k].upper
    /\ \E k \in 1..(Len(intervals_) - 1) :
          ~gaps(intervals_)[k].left_closed /\ ~gaps(intervals_)[k].right_closed

\* C28: the normalized form is canonical: two reachable collections are ==
\* exactly when they contain the same values, tested on every bound value
\* and on a value strictly between each pair of neighbouring bound values.
C28_CanonicalForm ==
    equals(intervals_, other)
        <=> (\A v \in AllPoints : contains(intervals_, v) <=> contains(other, v))

\* two collections that differ only in the closedness of one boundary, and
\* so in one value
C28_Witness ==
    /\ Len(intervals_) >= 2
    /\ Len(other) = Len(intervals_)
    /\ ~equals(intervals_, other)
    /\ Cardinality({v \in AllPoints : contains(intervals_, v) /= contains(other, v)}) = 1
    /\ \A k \in 1..Len(intervals_) :
          intervals_[k].lower = other[k].lower /\ intervals_[k].upper = other[k].upper

\* C27: the resulting collection does not depend on the order in which the
\* intervals are supplied: the collection constructed from a list, the one
\* constructed from any permutation of it and the one obtained by calling
\* insert on the empty collection once per element of the permutation are
\* all ==, with identical component sequences.
C27_OrderIndependent ==
    /\ equals(intervals_, other)
    /\ intervals_ = other
    /\ equals(insert_each(<<>>, ctor), from_list(ctor))

\* three intervals were inserted one by one, the first two apart from each
\* other and in descending order, the third joining them into one component
C27_Witness ==
    /\ op = "insert_each"
    /\ Len(ctor) = 3
    /\ \A k \in 1..3 : ~interval_empty(ctor[k])
    /\ interval_less(ctor[2], ctor[1])
    /\ ~Meets(ctor[1], ctor[2])
    /\ Len(intervals_) = 1

====
